---- MODULE Spec2Model ----
(***************************************************************************)
(* wikiloc_export.py: the merge of waypoint labels onto a trail's GeoJSON  *)
(* (update_geojson), the category-to-icon table (MARKER_DICT), the HTTP    *)
(* status check (skip_or_fail), and the pipeline of main: extraction in a  *)
(* browser session, merge, and the three MapHub calls.                     *)
(***************************************************************************)
EXTENDS Integers, Sequences, FiniteSets, TLC

VARIABLES
    pc,              \* position of the process in main / in the merge harness
    skip, fail,      \* the arguments skip_or_fail is called with
    response,        \* the navigation response: [status, url]
    browser,         \* "none" | "open" | "closed"
    launches,        \* number of browser sessions launched
    extracted,       \* names of the values the extraction has read so far
    trail_title,     \* the title, as a list of characters
    trail_uri,       \* window.location.pathname
    trail_geojson,   \* the feature list of the GeoJSON object (mutated in place)
    trail_waypoints, \* the waypoint list
    MARKER_DICT,     \* the defaultdict's stored entries
    merge_input,     \* the feature list as first passed to update_geojson
    runs,            \* outcomes of the update_geojson calls made so far
    data,            \* the create response
    map_id,          \* the identifier read from the create response
    calls,           \* the remote API calls issued, in order
    out,             \* what the process printed or reported, in order
    exit_code        \* "running", else the exit status of the process

vars == <<pc, skip, fail, response, browser, launches, extracted, trail_title,
          trail_uri, trail_geojson, trail_waypoints, MARKER_DICT, merge_input,
          runs, data, map_id, calls, out, exit_code>>

\* what the calls of update_geojson alone leave as it is
processVars == <<pc, skip, fail, response, browser, launches, extracted,
                 trail_title, trail_uri, data, map_id, calls, out, exit_code>>

-----------------------------------------------------------------------------
(* Bounds of the model *)

MaxFeatures == 2
MaxWaypoints == 2
MaxRuns == 2
MaxPageFeatures == 1
MaxPageWaypoints == 1

-----------------------------------------------------------------------------
(* Python values *)

\* None, and a str, as keys of one dict
None == <<"None">>
Str(s) == <<"str", s>>

PyInt(n) == [t |-> "int", v |-> n]
\* a float whose value is the whole number n
PyFloat(n) == [t |-> "float", v |-> n]
PyList(s) == [t |-> "list", v |-> s]

\* str() of an int or of a whole float, as an f-string renders it
NumStr(x) == IF x.t = "int" THEN ToString(x.v) ELSE ToString(x.v) \o ".0"

RECURSIVE JoinStr(_)
JoinStr(s) ==
    IF Len(s) = 0 THEN ""
    ELSE IF Len(s) = 1 THEN NumStr(s[1])
    ELSE NumStr(s[1]) \o ", " \o JoinStr(Tail(s))

\* str() of a number or of a list of numbers
PyStr(x) == IF x.t = "list" THEN "[" \o JoinStr(x.v) \o "]" ELSE NumStr(x)

EmptyDict == [k \in {} |-> ""]

-----------------------------------------------------------------------------
(* MARKER_DICT *)

DefaultIcon == "location-pin"

MarkerTable ==
    (Str("Intersection") :> "crossing") @@ (Str("Cave") :> "summit") @@
    (Str("River") :> "dam") @@ (Str("Tree") :> "forest") @@
    (Str("Waterfall") :> "dam") @@ (Str("Museum") :> "museum") @@
    (Str("Castle") :> "museum")

\* a dict that raises KeyError on a missing key
MarkerGetKeyError(md, k) ==
    IF k \in DOMAIN md THEN [ok |-> TRUE, icon |-> md[k], dict |-> md]
    ELSE [ok |-> FALSE, icon |-> "", dict |-> md]

\* MARKER_DICT[k] of a defaultdict: a missing key is given the factory's
\* value, which is stored in the dict and returned
MarkerGet(md, k) ==
    IF k \in DOMAIN md THEN [ok |-> TRUE, icon |-> md[k], dict |-> md]
    ELSE [ok |-> TRUE, icon |-> DefaultIcon, dict |-> (k :> DefaultIcon) @@ md]

-----------------------------------------------------------------------------
(* update_geojson *)

StartColor == "#3cc954"

\* f"{w['lon']}-{w['lat']}"
WaypointKey(w) == PyStr(w.lon) \o "-" \o PyStr(w.lat)

\* f"{f['geometry']['coordinates'][0]}-{f['geometry']['coordinates'][1]}"
FeatureKey(f) ==
    PyStr(f.geometry.coordinates[1]) \o "-" \o PyStr(f.geometry.coordinates[2])

HasGeometry(f) == "geometry" \in DOMAIN f

\* w.get("pictogramName")
Pictogram(w) == IF "pictogramName" \in DOMAIN w THEN w.pictogramName ELSE None

\* the dict comprehension: a later waypoint overwrites an earlier one
WaypointsDict(wps) ==
    [k \in {WaypointKey(wps[i]) : i \in DOMAIN wps} |->
        wps[CHOOSE i \in DOMAIN wps :
                /\ WaypointKey(wps[i]) = k
                /\ \A j \in DOMAIN wps : WaypointKey(wps[j]) = k => j <= i]]

\* the description is appended to the one the feature has
WaypointPropertiesAppend(f, w, icon) ==
    ("title" :> w.name) @@
    ("description" :>
        ((IF "description" \in DOMAIN f.properties
            THEN f.properties["description"] \o " " ELSE "")
         \o "Elevation: " \o PyStr(w.elevation) \o "m")) @@
    ("marker-symbol" :> icon)

\* the new entries are merged into the properties the feature has
WaypointPropertiesMerge(f, w, icon) ==
    ("title" :> w.name) @@
    ("description" :> ("Elevation: " \o PyStr(w.elevation) \o "m")) @@
    ("marker-symbol" :> icon) @@ f.properties

\* the dict assigned to f['properties'] on a hit
WaypointProperties(f, w, icon) ==
    ("title" :> w.name) @@
    ("description" :> ("Elevation: " \o PyStr(w.elevation) \o "m")) @@
    ("marker-symbol" :> icon)

\* the loop over the features, from feature i on, with the table as it stands
RECURSIVE JoinPass(_, _, _, _)
JoinPass(fs, i, wd, md) ==
    IF i > Len(fs) THEN [ok |-> TRUE, features |-> fs, dict |-> md]
    ELSE IF HasGeometry(fs[i]) /\ FeatureKey(fs[i]) \in DOMAIN wd
    THEN LET w == wd[FeatureKey(fs[i])]
             g == MarkerGet(md, Pictogram(w))
         IN  IF ~g.ok THEN [ok |-> FALSE, features |-> fs, dict |-> g.dict]
             ELSE JoinPass(
                    [fs EXCEPT ![i].properties = WaypointProperties(fs[i], w, g.icon)],
                    i + 1, wd, g.dict)
    ELSE JoinPass(fs, i + 1, wd, md)

IsPoint(f) == HasGeometry(f) /\ f.geometry.type = "Point"

\* indexes of the Point features, the list comprehension of the last statement
PointIndexes(fs) == {i \in DOMAIN fs : IsPoint(fs[i])}

FirstPoint(fs) == CHOOSE i \in PointIndexes(fs) : \A j \in PointIndexes(fs) : i <= j

\* the colour goes to every Point feature
ColorStartAll(fs) ==
    [i \in DOMAIN fs |->
        IF IsPoint(fs[i])
        THEN [fs[i] EXCEPT !.properties = ("marker-color" :> StartColor) @@ @]
        ELSE fs[i]]

\* [...][0]["properties"]["marker-color"] = "#3cc954"
ColorStart(fs) ==
    [fs EXCEPT ![FirstPoint(fs)].properties = ("marker-color" :> StartColor) @@ @]

\* update_geojson(trail_geojson, trail_waypoints) with the table md:
\* raised is TRUE when the call ends in an exception (a lookup that fails, or
\* [0] of an empty list); features is the object as the call leaves it
update_geojson(fs, wps, md) ==
    LET j == JoinPass(fs, 1, WaypointsDict(wps), md)
    IN  IF ~j.ok \/ PointIndexes(j.features) = {}
        THEN [raised |-> TRUE, features |-> j.features, dict |-> j.dict]
        ELSE [raised |-> FALSE, features |-> ColorStart(j.features), dict |-> j.dict]

-----------------------------------------------------------------------------
(* The values the page can hand to the merge *)

Point(lon, lat, props) ==
    [type |-> "Feature",
     geometry |-> [type |-> "Point", coordinates |-> <<lon, lat>>],
     properties |-> props]

LineString(a, b, props) ==
    [type |-> "Feature",
     geometry |-> [type |-> "LineString", coordinates |-> <<a, b>>],
     properties |-> props]

\* what a layer group exports: an entry with no 'geometry' of its own
Collection == [type |-> "FeatureCollection", features |-> <<>>]

OldProperties == ("name" :> "old") @@ ("marker-color" :> "#000000")

Features ==
    { Point(PyFloat(1), PyFloat(2), EmptyDict),
      Point(PyFloat(1), PyFloat(2), OldProperties),
      Point(PyInt(1), PyInt(2), EmptyDict),
      LineString(PyList(<<PyFloat(1), PyFloat(2)>>),
                 PyList(<<PyFloat(2), PyFloat(2)>>), EmptyDict),
      Collection }

Waypoints ==
    { [lon |-> PyFloat(1), lat |-> PyFloat(2), name |-> "Peak",
       elevation |-> PyInt(850), pictogramName |-> Str("Cave")],
      [lon |-> PyFloat(1), lat |-> PyFloat(2), name |-> "Ford",
       elevation |-> PyFloat(12)],
      [lon |-> PyInt(1), lat |-> PyInt(2), name |-> "Hut",
       elevation |-> PyInt(30), pictogramName |-> Str("Bridge")] }

SeqsUpTo(S, n) == UNION {[1..m -> S] : m \in 0..n}

Geometries == SeqsUpTo(Features, MaxFeatures)
WaypointLists == SeqsUpTo(Waypoints, MaxWaypoints)

\* the values the page scripts of one run of main can evaluate to
PageGeometries == SeqsUpTo(Features, MaxPageFeatures)
PageWaypointLists == SeqsUpTo(Waypoints, MaxPageWaypoints)

-----------------------------------------------------------------------------
(* update_geojson called repeatedly in one process *)

InitMerge ==
    /\ pc = "call"
    /\ skip = FALSE /\ fail = TRUE
    /\ response = <<>>
    /\ browser = "none" /\ launches = 0 /\ extracted = {}
    /\ trail_title = <<>> /\ trail_uri = ""
    /\ trail_geojson \in Geometries
    /\ trail_waypoints \in WaypointLists
    /\ MARKER_DICT = MarkerTable
    /\ merge_input = trail_geojson
    /\ runs = <<>>
    /\ data = EmptyDict /\ map_id = "" /\ calls = <<>> /\ out = <<>>
    /\ exit_code = "running"

\* update_geojson on the object the last call left (its own output, when
\* it returned), with the same waypoints
CallOnOutput ==
    /\ pc = "call"
    /\ Len(runs) < MaxRuns
    /\ LET r == update_geojson(trail_geojson, trail_waypoints, MARKER_DICT)
       IN  /\ trail_geojson' = r.features
           /\ MARKER_DICT' = r.dict
           /\ runs' = Append(runs, [on |-> "output", raised |-> r.raised,
                                    features |-> r.features])
    /\ UNCHANGED <<processVars, trail_waypoints, merge_input>>

\* update_geojson on a fresh copy of the first input, with the same waypoints
CallOnInput ==
    /\ pc = "call"
    /\ Len(runs) < MaxRuns
    /\ LET r == update_geojson(merge_input, trail_waypoints, MARKER_DICT)
       IN  /\ trail_geojson' = r.features
           /\ MARKER_DICT' = r.dict
           /\ runs' = Append(runs, [on |-> "input", raised |-> r.raised,
                                    features |-> r.features])
    /\ UNCHANGED <<processVars, trail_waypoints, merge_input>>

NextMerge == CallOnOutput \/ CallOnInput

SpecMerge == InitMerge /\ [][NextMerge]_vars

-----------------------------------------------------------------------------
(* Properties of update_geojson and MARKER_DICT, under SpecMerge *)

\* the object the n-th call was given
RunInput(n) ==
    IF n = 1 \/ runs[n].on = "input" THEN merge_input ELSE runs[n - 1].features

\* the waypoints whose join key is the feature's
Matching(f) ==
    IF HasGeometry(f)
    THEN {j \in DOMAIN trail_waypoints : WaypointKey(trail_waypoints[j]) = FeatureKey(f)}
    ELSE {}

LastMatching(f) == CHOOSE j \in Matching(f) : \A k \in Matching(f) : k <= j

\* the icon the table of lines 35-44 gives a category
TableIcon(c) == IF c \in DOMAIN MarkerTable THEN MarkerTable[c] ELSE DefaultIcon

\* the three properties the claim names, for waypoint w
Labels(w) ==
    [k \in {"title", "description", "marker-symbol"} |->
        CASE k = "title" -> w.name
          [] k = "description" -> "Elevation: " \o PyStr(w.elevation) \o "m"
          [] k = "marker-symbol" -> TableIcon(Pictogram(w))]

Returned == {n \in DOMAIN runs : ~runs[n].raised}

\* C1 as stated: in every returned output, a feature whose join key is that of
\* some waypoint has exactly the properties title, description and
\* marker-symbol of that waypoint
C1_AsStated ==
    \A n \in Returned : \A i \in DOMAIN runs[n].features :
        \A j \in Matching(runs[n].features[i]) :
            runs[n].features[i].properties = Labels(trail_waypoints[j])

\* C1: in every returned output, a feature whose join key is that of some
\* waypoint has the title, description and marker-symbol of the last waypoint
\* in list order with that key, and nothing else, except that the first Point
\* feature also has marker-color "#3cc954"
C1_MatchedProperties ==
    \A n \in Returned : \A i \in DOMAIN runs[n].features :
        LET f == runs[n].features[i]
        IN  Matching(f) # {} =>
              f.properties =
                (IF i = FirstPoint(runs[n].features)
                    THEN ("marker-color" :> "#3cc954") ELSE EmptyDict)
                @@ Labels(trail_waypoints[LastMatching(f)])

\* a returned call whose second feature matched two waypoints with one key and
\* had properties of its own on input
C1_Witness ==
    /\ Returned # {}
    /\ Len(runs[1].features) >= 2
    /\ Cardinality(Matching(runs[1].features[2])) = 2
    /\ merge_input[2].properties # EmptyDict
    /\ FirstPoint(runs[1].features) = 1
    /\ Matching(runs[1].features[1]) # {}

\* C2: in every returned output a feature with no matching waypoint is as it
\* was on input, except that the first Point feature has marker-color
\* "#3cc954" (matched or not); no other feature has a marker-color it did not
\* have on input
C2_UnmatchedUnchanged ==
    \A n \in Returned : \A i \in DOMAIN runs[n].features :
        LET f == runs[n].features[i]
            g == RunInput(n)[i]
            first == FirstPoint(runs[n].features)
        IN  /\ Len(runs[n].features) = Len(RunInput(n))
            /\ (Matching(f) = {} /\ i # first) => f = g
            /\ (Matching(f) = {} /\ i = first) =>
                  f = [g EXCEPT !.properties = ("marker-color" :> "#3cc954") @@ @]
            /\ i = first => f.properties["marker-color"] = "#3cc954"
            /\ (i # first /\ HasGeometry(f) /\ "marker-color" \in DOMAIN f.properties) =>
                  /\ "marker-color" \in DOMAIN g.properties
                  /\ g.properties["marker-color"] = f.properties["marker-color"]

\* a returned call on two Point features: the first matched no waypoint, the
\* second had properties on input and matched none either
C2_Witness ==
    /\ Returned # {}
    /\ Len(merge_input) = 2
    /\ IsPoint(merge_input[1]) /\ IsPoint(merge_input[2])
    /\ Matching(merge_input[1]) = {} /\ Matching(merge_input[2]) = {}
    /\ merge_input[2].properties # EmptyDict
    /\ trail_waypoints # <<>>

Categories == DOMAIN MarkerTable \cup {Str("Bridge"), Str(""), None}

\* C3: whatever the table holds after any calls, the lookup of a category in the
\* explicit table gives its table icon, the lookup of any other category or of
\* None gives "location-pin", and no lookup fails
C3_LookupTotal ==
    \A c \in Categories :
        LET g == MarkerGet(MARKER_DICT, c)
        IN  /\ g.ok
            /\ c \in DOMAIN MarkerTable => g.icon = MarkerTable[c]
            /\ c \notin DOMAIN MarkerTable => g.icon = "location-pin"

\* the table after lookups of an unrecognized category and of an absent one
C3_Witness ==
    /\ runs # <<>>
    /\ {Str("Bridge"), None} \subseteq DOMAIN MARKER_DICT

\* C4: all calls on the same input and on their own outputs, with the same
\* waypoints, end alike: all raise or all return, and the returned outputs are
\* identical
C4_Idempotent ==
    \A n, m \in DOMAIN runs :
        /\ runs[n].raised = runs[m].raised
        /\ ~runs[n].raised => runs[n].features = runs[m].features

\* a second call on the first call's output, which differs from the input in a
\* matched feature
C4_Witness ==
    /\ Len(runs) >= 2
    /\ runs[2].on = "output"
    /\ ~runs[2].raised
    /\ \E i \in DOMAIN merge_input :
          Matching(merge_input[i]) # {} /\ runs[1].features[i] # merge_input[i]

\* C9 as stated: the table holds the entries it held after module initialization
C9_TableReadOnly == MARKER_DICT = MarkerTable

-----------------------------------------------------------------------------
(* skip_or_fail *)

TrailUrl == "https://www.wikiloc.com/trails/1"

Statuses == {200, 404, 500}

RECURSIVE FirstDigit(_)
FirstDigit(n) == IF n < 10 THEN n ELSE FirstDigit(n \div 10)

\* str(response.status)[0] in ("4", "5")
IsErrorStatus(status) == FirstDigit(status) \in {4, 5}

Returns == [raises |-> "", echo |-> "", message |-> ""]

\* the status is not looked at
skip_or_fail_unchecked(resp, sk, fl) ==
    IF sk /\ fl
    THEN [raises |-> "ClickException", echo |-> "",
          message |-> "--skip and --fail cannot be used together"]
    ELSE Returns

\* the skip argument is not looked at once the status is an error
skip_or_fail_noskip(resp, sk, fl) ==
    IF sk /\ fl
    THEN [raises |-> "ClickException", echo |-> "",
          message |-> "--skip and --fail cannot be used together"]
    ELSE IF IsErrorStatus(resp.status) /\ fl
    THEN [raises |-> "ClickException", echo |-> "",
          message |-> ToString(resp.status) \o " error for " \o resp.url]
    ELSE Returns

\* skip_or_fail(response, skip, fail): the exception it raises ("" when it
\* returns), what it echoes to stderr first, and the exception's message
skip_or_fail(resp, sk, fl) ==
    IF sk /\ fl
    THEN [raises |-> "ClickException", echo |-> "",
          message |-> "--skip and --fail cannot be used together"]
    ELSE IF IsErrorStatus(resp.status)
    THEN IF sk
         THEN [raises |-> "SystemExit",
               echo |-> ToString(resp.status) \o " error for " \o resp.url \o ", skipping",
               message |-> ""]
         ELSE IF fl
         THEN [raises |-> "ClickException", echo |-> "",
               message |-> ToString(resp.status) \o " error for " \o resp.url]
         ELSE Returns
    ELSE Returns

-----------------------------------------------------------------------------
(* The page title *)

SepIndexes(s) == {i \in DOMAIN s : s[i] = "|"}

\* s.split("|", 1)
SplitOnce(s) ==
    IF SepIndexes(s) = {} THEN <<s>>
    ELSE LET i == CHOOSE k \in SepIndexes(s) : \A m \in SepIndexes(s) : k <= m
         IN  <<SubSeq(s, 1, i - 1), SubSeq(s, i + 1, Len(s))>>

RECURSIVE Strip(_)
Strip(s) ==
    IF s = <<>> THEN s
    ELSE IF s[1] = " " THEN Strip(Tail(s))
    ELSE IF s[Len(s)] = " " THEN Strip(SubSeq(s, 1, Len(s) - 1))
    ELSE s

RECURSIVE Text(_)
Text(s) == IF s = <<>> THEN "" ELSE s[1] \o Text(Tail(s))

\* values of document.title
Titles == { <<"W", " ", "|", " ", "A", "|", "B", " ">>, <<"T">> }

-----------------------------------------------------------------------------
(* main *)

Init ==
    /\ pc = "start"
    /\ skip = FALSE /\ fail = TRUE
    /\ response = <<>>
    /\ browser = "none" /\ launches = 0 /\ extracted = {}
    /\ trail_title = <<>> /\ trail_uri = ""
    /\ trail_geojson = <<>> /\ trail_waypoints = <<>>
    /\ MARKER_DICT = MarkerTable
    /\ merge_input = <<>> /\ runs = <<>>
    /\ data = EmptyDict /\ map_id = "" /\ calls = <<>> /\ out = <<>>
    /\ exit_code = "running"

\* skip_or_fail called with any arguments
InitSkip ==
    /\ pc = "start"
    /\ skip \in BOOLEAN /\ fail \in BOOLEAN
    /\ response = <<>>
    /\ browser = "none" /\ launches = 0 /\ extracted = {}
    /\ trail_title = <<>> /\ trail_uri = ""
    /\ trail_geojson = <<>> /\ trail_waypoints = <<>>
    /\ MARKER_DICT = MarkerTable
    /\ merge_input = <<>> /\ runs = <<>>
    /\ data = EmptyDict /\ map_id = "" /\ calls = <<>> /\ out = <<>>
    /\ exit_code = "running"

\* the process ends: the with block of get_wikiloc_data, when it is left by an
\* exception, stops playwright and with it the browser
Ends(code, lines) ==
    /\ pc' = "exit"
    /\ exit_code' = code
    /\ out' = out \o lines
    /\ browser' = IF browser = "open" THEN "closed" ELSE browser

\* sync_playwright(), _browser_context(p), context.new_page()
Launch ==
    /\ pc = "start"
    /\ browser' = "open"
    /\ launches' = launches + 1
    /\ out' = Append(out, "GETTING WIKILOC DATA FROM URL " \o TrailUrl)
    /\ pc' = "goto"
    /\ UNCHANGED <<skip, fail, response, extracted, trail_title, trail_uri,
                   trail_geojson, trail_waypoints, MARKER_DICT, merge_input,
                   runs, data, map_id, calls, exit_code>>

\* page.goto(wikiloc_url): a response, or a playwright Error nobody catches
Goto ==
    /\ pc = "goto"
    /\ \E r \in [status : Statuses, url : {TrailUrl}] \cup {<<>>} :
          IF r = <<>>
          THEN /\ Ends("1", <<"playwright Error: Timeout exceeded">>)
               /\ UNCHANGED response
          ELSE /\ response' = r
               /\ pc' = "check"
               /\ UNCHANGED <<browser, out, exit_code>>
    /\ UNCHANGED <<skip, fail, launches, extracted, trail_title, trail_uri,
                   trail_geojson, trail_waypoints, MARKER_DICT, merge_input,
                   runs, data, map_id, calls>>

\* skip_or_fail(response) and what its exception does to the process: click
\* reports a ClickException as "Error: <message>" and exits with status 1, a
\* bare SystemExit ends the process with status 0
SkipOrFail ==
    /\ pc = "check"
    /\ LET r == skip_or_fail(response, skip, fail)
       IN  CASE r.raises = "SystemExit" -> Ends("0", <<r.echo>>)
             [] r.raises = "ClickException" -> Ends("1", <<"Error: " \o r.message>>)
             [] OTHER -> /\ pc' = "eval_geojson"
                         /\ UNCHANGED <<browser, out, exit_code>>
    /\ UNCHANGED <<skip, fail, response, launches, extracted, trail_title,
                   trail_uri, trail_geojson, trail_waypoints, MARKER_DICT,
                   merge_input, runs, data, map_id, calls>>

PageError == "Error: ReferenceError: trailMap is not defined"

\* _evaluate_js(page, trail_geojson_js): the features, or a ClickException
EvalGeojson ==
    /\ pc = "eval_geojson"
    /\ \E ok \in BOOLEAN :
          IF ok
          THEN /\ \E g \in PageGeometries : trail_geojson' = g
               /\ extracted' = extracted \cup {"trail_geojson"}
               /\ pc' = "eval_waypoints"
               /\ UNCHANGED <<browser, out, exit_code>>
          ELSE /\ Ends("1", <<PageError>>)
               /\ UNCHANGED <<trail_geojson, extracted>>
    /\ UNCHANGED <<skip, fail, response, launches, trail_title, trail_uri,
                   trail_waypoints, MARKER_DICT, merge_input, runs, data,
                   map_id, calls>>

\* _evaluate_js(page, trail_waypoints_js)
EvalWaypoints ==
    /\ pc = "eval_waypoints"
    /\ \E ok \in BOOLEAN :
          IF ok
          THEN /\ \E w \in PageWaypointLists : trail_waypoints' = w
               /\ extracted' = extracted \cup {"trail_waypoints"}
               /\ pc' = "eval_title"
               /\ UNCHANGED <<browser, out, exit_code>>
          ELSE /\ Ends("1", <<PageError>>)
               /\ UNCHANGED <<trail_waypoints, extracted>>
    /\ UNCHANGED <<skip, fail, response, launches, trail_title, trail_uri,
                   trail_geojson, MARKER_DICT, merge_input, runs, data,
                   map_id, calls>>

\* _evaluate_js(page, title_js).split("|",1)[1].strip(): [1] of a one-element
\* list is an IndexError nobody catches
EvalTitle ==
    /\ pc = "eval_title"
    /\ \E t \in Titles \cup {<<>>} :
          IF t = <<>>
          THEN /\ Ends("1", <<PageError>>)
               /\ UNCHANGED <<trail_title, extracted>>
          ELSE IF Len(SplitOnce(t)) < 2
          THEN /\ Ends("1", <<"IndexError: list index out of range">>)
               /\ UNCHANGED <<trail_title, extracted>>
          ELSE /\ trail_title' = Strip(SplitOnce(t)[2])
               /\ extracted' = extracted \cup {"trail_title"}
               /\ pc' = "eval_uri"
               /\ UNCHANGED <<browser, out, exit_code>>
    /\ UNCHANGED <<skip, fail, response, launches, trail_uri, trail_geojson,
                   trail_waypoints, MARKER_DICT, merge_input, runs, data,
                   map_id, calls>>

\* _evaluate_js(page, uri_js)
EvalUri ==
    /\ pc = "eval_uri"
    /\ \E ok \in BOOLEAN :
          IF ok
          THEN /\ trail_uri' = "/trails/1"
               /\ extracted' = extracted \cup {"trail_uri"}
               /\ pc' = "close"
               /\ UNCHANGED <<browser, out, exit_code>>
          ELSE /\ Ends("1", <<PageError>>)
               /\ UNCHANGED <<trail_uri, extracted>>
    /\ UNCHANGED <<skip, fail, response, launches, trail_title, trail_geojson,
                   trail_waypoints, MARKER_DICT, merge_input, runs, data,
                   map_id, calls>>

\* get_wikiloc_data returns with the session left open
CloseForgotten ==
    /\ pc = "close"
    /\ pc' = "merge"
    /\ UNCHANGED <<browser, skip, fail, response, launches, extracted, trail_title,
                   trail_uri, trail_geojson, trail_waypoints, MARKER_DICT,
                   merge_input, runs, data, map_id, calls, out, exit_code>>

\* browser_obj.close(), the end of the with block, the return
Close ==
    /\ pc = "close"
    /\ browser' = "closed"
    /\ pc' = "merge"
    /\ UNCHANGED <<skip, fail, response, launches, extracted, trail_title,
                   trail_uri, trail_geojson, trail_waypoints, MARKER_DICT,
                   merge_input, runs, data, map_id, calls, out, exit_code>>

\* updated_geojson = update_geojson(trail_geojson, trail_waypoints); the
\* IndexError of a geometry with no Point feature ends the process
Merge ==
    /\ pc = "merge"
    /\ LET r == update_geojson(trail_geojson, trail_waypoints, MARKER_DICT)
       IN  /\ merge_input' = trail_geojson
           /\ trail_geojson' = r.features
           /\ MARKER_DICT' = r.dict
           /\ runs' = Append(runs, [on |-> "input", raised |-> r.raised,
                                    features |-> r.features])
           /\ IF r.raised
              THEN Ends("1", <<"IndexError: list index out of range">>)
              ELSE /\ pc' = "create"
                   /\ UNCHANGED <<browser, out, exit_code>>
    /\ UNCHANGED <<skip, fail, response, launches, extracted, trail_title,
                   trail_uri, trail_waypoints, data, map_id, calls>>

\* responses of the three endpoints: {id, url} or {error}, {id} or {error}
CreateResponses ==
    { [id |-> "m1", url |-> "https://maphub.net/u/m1"], [error |-> "Invalid token"] }

UpdateResponses(id) == { [id |-> id], [error |-> "Invalid GeoJSON"] }

RefreshResponses(id) == { [id |-> id], [error |-> "Map not found"] }

CreateArgs ==
    [file_type |-> "empty", title |-> Text(trail_title),
     short_name |-> trail_uri, visibility |-> "public"]

\* a create response without "id" is reported and the sequence goes on
CreateLenient ==
    /\ pc = "create"
    /\ \E res \in CreateResponses :
          /\ calls' = Append(calls, [op |-> "create", args |-> CreateArgs,
                                     response |-> res])
          /\ data' = res
          /\ IF "id" \notin DOMAIN res
             THEN /\ map_id' = ""
                  /\ out' = out \o <<"CREATING MAPHUB MAP", res.error>>
             ELSE /\ map_id' = res.id
                  /\ out' = Append(out, "CREATING MAPHUB MAP")
          /\ pc' = "update"
          /\ UNCHANGED <<browser, exit_code>>
    /\ UNCHANGED <<skip, fail, response, launches, extracted, trail_title,
                   trail_uri, trail_geojson, trail_waypoints, MARKER_DICT,
                   merge_input, runs>>

\* create_maphub_trailmap up to map_id = data["id"]: the KeyError of a
\* response without "id" ends the process
Create ==
    /\ pc = "create"
    /\ \E res \in CreateResponses :
          /\ calls' = Append(calls, [op |-> "create", args |-> CreateArgs,
                                     response |-> res])
          /\ data' = res
          /\ IF "id" \notin DOMAIN res
             THEN /\ Ends("1", <<"CREATING MAPHUB MAP", "KeyError: 'id'">>)
                  /\ UNCHANGED map_id
             ELSE /\ map_id' = res.id
                  /\ out' = Append(out, "CREATING MAPHUB MAP")
                  /\ pc' = "update"
                  /\ UNCHANGED <<browser, exit_code>>
    /\ UNCHANGED <<skip, fail, response, launches, extracted, trail_title,
                   trail_uri, trail_geojson, trail_waypoints, MARKER_DICT,
                   merge_input, runs>>

UpdateArgs ==
    [map_id |-> map_id, geojson |-> trail_geojson, basemap |-> "maphub-earth",
     description |-> "test description", visibility |-> "public"]

\* a failed update ends the publish sequence
UpdateFatal ==
    /\ pc = "update"
    /\ \E res \in UpdateResponses(map_id) :
          /\ calls' = Append(calls, [op |-> "update", args |-> UpdateArgs,
                                     response |-> res])
          /\ IF "id" \notin DOMAIN res
             THEN Ends("1", <<res.error>>)
             ELSE /\ out' = Append(out, "Map updated")
                  /\ pc' = "refresh"
                  /\ UNCHANGED <<browser, exit_code>>
    /\ UNCHANGED <<skip, fail, response, launches, extracted, trail_title,
                   trail_uri, trail_geojson, trail_waypoints, MARKER_DICT,
                   merge_input, runs, data, map_id>>

\* update_map(map_id, trail_geojson)
Update ==
    /\ pc = "update"
    /\ \E res \in UpdateResponses(map_id) :
          /\ calls' = Append(calls, [op |-> "update", args |-> UpdateArgs,
                                     response |-> res])
          /\ out' = Append(out, IF "id" \notin DOMAIN res THEN res.error
                                ELSE "Map updated")
    /\ pc' = "refresh"
    /\ UNCHANGED <<skip, fail, response, browser, launches, extracted, trail_title,
                   trail_uri, trail_geojson, trail_waypoints, MARKER_DICT,
                   merge_input, runs, data, map_id, exit_code>>

Created ==
    "MAP CREATED! ID: '" \o map_id \o "', TITLE: '" \o Text(trail_title)
        \o "', URL: '" \o data.url \o "'"

\* refresh_map_image(map_id), the last print, and the return of main
Refresh ==
    /\ pc = "refresh"
    /\ \E res \in RefreshResponses(map_id) :
          /\ calls' = Append(calls, [op |-> "refresh", args |-> [map_id |-> map_id],
                                     response |-> res])
          /\ Ends("0", <<"REFRESHING MAP IMAGE">>
                        \o (IF "id" \notin DOMAIN res THEN <<res.error>> ELSE <<>>)
                        \o <<Created>>)
    /\ UNCHANGED <<skip, fail, response, launches, extracted, trail_title,
                   trail_uri, trail_geojson, trail_waypoints, MARKER_DICT,
                   merge_input, runs, data, map_id>>

Next ==
    \/ Launch \/ Goto \/ SkipOrFail
    \/ EvalGeojson \/ EvalWaypoints \/ EvalTitle \/ EvalUri \/ Close
    \/ Merge
    \/ Create \/ Update \/ Refresh

Spec == Init /\ [][Next]_vars

SpecSkip == InitSkip /\ [][Next]_vars

-----------------------------------------------------------------------------
(* Properties of the pipeline, under Spec and SpecSkip *)

Ops == [i \in DOMAIN calls |-> calls[i].op]

Reported(text) == \E i \in DOMAIN out : out[i] = text

\* C5: once the create response has come without "id", the process has ended
\* with a failure status, the KeyError is the last thing reported, and the
\* create call is the only remote call ever issued
C5_CreateAborts ==
    (calls # <<>> /\ "id" \notin DOMAIN calls[1].response) =>
        /\ pc = "exit"
        /\ exit_code = "1"
        /\ Ops = <<"create">>
        /\ out[Len(out)] = "KeyError: 'id'"

\* the process after a create response that holds only an error
C5_Witness ==
    /\ calls # <<>>
    /\ "id" \notin DOMAIN calls[1].response
    /\ pc = "exit"

Checked == pc \notin {"start", "goto", "check"} /\ response # <<>>

NothingFurther == extracted = {} /\ runs = <<>> /\ calls = <<>>

C8_FailsWithError ==
    (Checked /\ IsErrorStatus(response.status) /\ ~skip /\ fail) =>
        /\ pc = "exit"
        /\ exit_code = "1"
        /\ out[Len(out)] =
              "Error: " \o ToString(response.status) \o " error for " \o response.url
        /\ NothingFurther

\* the process after a 500 with the default arguments
C8_Witness ==
    /\ Checked
    /\ response.status = 500
    /\ ~skip /\ fail
    /\ pc = "exit"

\* C10: a run launches one browser session and never a second; whenever a
\* remote call has been issued or is about to be, that session is closed and
\* all four values have been extracted; while the session is open no remote
\* call has been issued; the session is not open when the process has ended
C10_SessionClosedBeforePublish ==
    /\ launches <= 1
    /\ pc # "start" => launches = 1
    /\ (calls # <<>> \/ pc \in {"create", "update", "refresh"}) =>
          /\ browser = "closed"
          /\ extracted = {"trail_geojson", "trail_waypoints", "trail_title", "trail_uri"}
    /\ browser = "open" => calls = <<>>
    /\ pc = "exit" => browser = "closed"

\* a run that has issued all three remote calls
C10_Witness ==
    /\ Len(calls) = 3
    /\ browser = "closed"
    /\ launches = 1

====
